---- MODULE Spec2Model ----
(***************************************************************************)
(* Model of the Maison Protegee client (custom_components/maison_protegee). *)
(*                                                                         *)
(* The state is the session state of one MaisonProtegeeAPI instance        *)
(* (api.py 31-38) plus, for every concurrent caller of that instance (the  *)
(* coordinators of sensor.py / switch.py, the switch commands, the         *)
(* shutdown listener), the position of its coroutine.  A coroutine only    *)
(* yields at its awaits (the HTTP requests), so one action is the code     *)
(* between two awaits.  SpecHost adds the host side of one config entry     *)
(* (__init__.py, switch.py) driving that client and SpecFlow the           *)
(* configuration flow (config_flow.py); SpecStatus, SpecTemps and          *)
(* SpecEvents apply the three extractors to bounded pages; SpecCoord is    *)
(* the events coordinator (sensor.py) polling the server's log; SpecLive   *)
(* is the status poll, under fairness, against a server that recovers.     *)
(***************************************************************************)
EXTENDS Integers, FiniteSets, Sequences, TLC

VARIABLES
    authenticated,              \* self._authenticated
    cookies,                    \* session.cookie_jar holds a session cookie
    last_auth_failure_time,     \* self._last_auth_failure_time (None or minutes)
    last_successful_auth_time,  \* self._last_successful_auth_time
    now,                        \* datetime.now(), in minutes
    last_failed_attempt,        \* history: when an authenticate() last failed
    task,                       \* per caller: the coroutine it is running
    registered,                 \* the entry is in hass.data[DOMAIN]
    host_pc,                    \* what the host is awaiting from the client
    switch_data,                \* data of the switch's MaisonProtegeeCoordinator
    logout_gets,                \* history: logout GETs sent by the shutdown listener
    html,                       \* the page handed to an extractor
    status_data,                \* status_data of _parse_status_html
    parse_pc,                   \* "called" until the extractor returns
    temperatures,               \* temperatures of _parse_temperatures_html
    events,                     \* events of _parse_events_html
    flow,                       \* the configuration flow (config_flow.py)
    server_log,                 \* the server's event log as table rows, newest first
    last_processed_event_date,  \* self._last_processed_event_date (sensor.py 168)
    bus,                        \* history: the events fired on hass.bus, in order
    seen,                       \* history: messages of the events earlier polls returned
    coord_data,                 \* what the events coordinator's last update returned
    polls,                      \* history: updates of the events coordinator so far
    server_ok                   \* the server accepts the credentials and serves the status page

\* the host side (__init__.py, switch.py) of one config entry
hostVars == <<registered, host_pc, switch_data, logout_gets>>

vars == <<authenticated, cookies, last_auth_failure_time,
          last_successful_auth_time, now, last_failed_attempt, task,
          registered, host_pc, switch_data, logout_gets,
          html, status_data, parse_pc, temperatures, events, flow,
          server_log, last_processed_event_date, bus, seen, coord_data, polls,
          server_ok>>

\* the events coordinator (sensor.py 159-231) and the log it polls
coordVars ==
    <<server_log, last_processed_event_date, bus, seen, coord_data, polls>>

\* one call of an extractor
parseVars == <<html, status_data, parse_pc, temperatures, events>>

\* Python's None for a timestamp that is not set (timestamps are >= 0)
None == -1

\* timedelta(minutes=5)
AUTH_RETRY_DELAY == 5

\* horizon of the clock, in minutes
MaxTime == 6

\* the coroutines that may overlap on one client instance
Callers == {"a", "b"}

ResourceOps == {"get_status", "get_temperatures", "get_events", "set_status"}

ReadOps == {"get_status", "get_temperatures", "get_events"}

Ops == ResourceOps \cup {"authenticate", "logout"}

\* the arguments a call may carry
ArgsOf(op) ==
    CASE op = "set_status" -> {"arm", "disarm", "bogus"}
      [] op = "logout" -> {"plain", "force"}
      [] OTHER -> {"-"}

(***************************************************************************)
(* What the server / transport can answer.                                 *)
(***************************************************************************)
NoResp == [kind |-> "none", url |-> "-", status |-> 0, body |-> "-"]

NetErr == [kind |-> "neterr", url |-> "-", status |-> 0, body |-> "-"]

Blocked == [kind |-> "blocked", url |-> "-", status |-> 0, body |-> "-"]

Http(url, status, body) ==
    [kind |-> "http", url |-> url, status |-> status, body |-> body]

\* final response of the login POST: final URL, status, body phrase.
\* url "home": HOME_URL in final_url or final_url.endswith("/home.do");
\* body "already_open": contains "session deja ouverte"; "form": contains
\* "identifiant" or "mot de passe" (and not the former); "other": neither
LoginResponses ==
    { Http("home", 200, "other"), Http("home", 500, "other"),
      Http("other", 200, "already_open"), Http("other", 200, "form"),
      Http("other", 200, "other"), Http("other", 500, "form") }

\* response to a resource request (redirects are not followed)
ResourceResponses ==
    { Http("-", 200, b) : b \in {"empty", "junk", "ok"} }
    \cup { Http("-", st, b) : st \in {301, 302}, b \in {"empty", "ok"} }
    \cup { Http("-", st, "empty") : st \in {401, 403, 404, 500} }

(***************************************************************************)
(* Session state as a value, so that a handler is a function on it.        *)
(***************************************************************************)
Sess ==
    [authenticated |-> authenticated, cookies |-> cookies,
     fail |-> last_auth_failure_time, succ |-> last_successful_auth_time,
     failedAt |-> last_failed_attempt]

IdleTask ==
    [op |-> "none", arg |-> "-", pc |-> "idle", startAuth |-> FALSE,
     pre |-> "none", branch |-> "none", re |-> "none",
     loginResp |-> NoResp, last |-> NoResp, ret |-> "pending",
     nLogin |-> 0, nReq |-> 0]

\* mutant: a recorded failure blocks the login for good
ShouldRetryAuth_Never(failTime, t) == failTime = None

\* _should_retry_auth
ShouldRetryAuth(failTime, t) ==
    failTime = None \/ t - failTime >= AUTH_RETRY_DELAY

\* mutant: clearing the session also forgets the last successful login
ClearSession_ForgetSuccess(s) ==
    [s EXCEPT !.cookies = FALSE, !.authenticated = FALSE, !.succ = None]

\* _clear_session
ClearSession(s) ==
    [s EXCEPT !.cookies = FALSE, !.authenticated = FALSE]

\* the value an operation returns for "no data"
NoData(op) == IF op = "set_status" THEN "False" ELSE "None"

\* the operation returns
Done(s, t, ret) ==
    [s |-> s, t |-> [t EXCEPT !.pc = "done", !.ret = ret]]

\* session.get(...) of the resource: the first request or the retried one
SendRequest(s, t) ==
    [s |-> s,
     t |-> [t EXCEPT !.pc = IF t.branch = "none" THEN "fetch" ELSE "retry",
                     !.nReq = @ + 1]]

\* set_status: the action argument is checked after the login, before the GET
ValidAction(op, arg) == op = "set_status" => arg \in {"arm", "disarm"}

\* the code between the initial authentication and the first request
AfterPreAuth(s, t) ==
    IF ValidAction(t.op, t.arg) THEN SendRequest(s, t)
    ELSE Done(s, t, "False")

\* mutant: the except clauses leave the session as it is
HandleError_Ignore(op, s, err) == s

\* the except clauses of an operation; err is "http404", "http" or "transport"
HandleError(op, s, err) ==
    IF op \in {"get_status", "get_temperatures"} /\ err = "http404"
    THEN ClearSession(s)
    ELSE [s EXCEPT !.authenticated = FALSE]

\* async_authenticate() has returned r ("True", "False") or raised ("raise")
AuthReturned(s, t, r) ==
    LET t1 == IF t.op = "authenticate" THEN t
              ELSE IF t.branch = "none" THEN [t EXCEPT !.pre = r]
              ELSE [t EXCEPT !.re = r]
    IN  CASE t.op = "authenticate" -> Done(s, t1, r)
          [] t.op # "authenticate" /\ t.branch = "none" ->
                IF r = "True" THEN AfterPreAuth(s, t1)
                ELSE IF r = "raise" THEN Done(s, t1, "raise")
                ELSE Done(s, t1, NoData(t.op))
          [] OTHER ->
                IF r = "True" THEN SendRequest(s, t1)
                ELSE IF r = "raise"
                THEN Done(HandleError(t.op, s, "transport"), t1, NoData(t.op))
                ELSE Done(s, t1, NoData(t.op))

\* async_authenticate up to its POST
BeginAuth(s, t, time) ==
    IF ~ShouldRetryAuth(s.fail, time)
    THEN AuthReturned(s, [t EXCEPT !.loginResp = Blocked], "False")
    ELSE [s |-> s, t |-> [t EXCEPT !.pc = "auth_post", !.nLogin = @ + 1]]

\* mutant: success decided by the HTTP status
LoginSucceeded_ByStatus(resp) == resp.status = 200

\* the success test of the login
LoginSucceeded(resp) == resp.url = "home"

\* mutant: no failed response records the failure timestamp
LoginArmsBackoff_Never(resp) == FALSE

\* the failures that record the failure timestamp
LoginArmsBackoff(resp) == resp.status = 200 /\ resp.body = "already_open"

\* mutant: a success that leaves the failure timestamp in place
AuthSuccess_KeepFailure(s, time) ==
    [s EXCEPT !.authenticated = TRUE, !.succ = time]

\* the state changes of a successful login
AuthSuccess(s, time) ==
    [s EXCEPT !.authenticated = TRUE, !.fail = None, !.succ = time]

\* mutant: a transport error that does not record the failure
AuthNetworkError_NoRecord(s, time) ==
    [s EXCEPT !.failedAt = time]

\* the state changes of a transport error during the login
AuthNetworkError(s, time) ==
    [s EXCEPT !.fail = time, !.failedAt = time]

\* a failed login; armed: the code records the failure timestamp
\* (failedAt is history: every failed attempt, recorded or not)
AuthFailure(s, time, armed) ==
    [s EXCEPT !.fail = IF armed THEN time ELSE @, !.failedAt = time]

\* async_authenticate from the response of its POST on
OnLoginResponse(s, t, resp, time) ==
    LET t1 == [t EXCEPT !.loginResp = resp]
    IN  IF LoginSucceeded(resp)
        THEN AuthReturned(AuthSuccess(s, time), t1, "True")
        ELSE AuthReturned(AuthFailure(s, time, LoginArmsBackoff(resp)), t1, "False")

\* async_authenticate when the POST raises
OnLoginError(s, t, time) ==
    AuthReturned(AuthNetworkError(s, time), [t EXCEPT !.loginResp = NetErr], "raise")

(***************************************************************************)
(* The resource operations.                                                *)
(***************************************************************************)
\* response.raise_for_status()
RaisesForStatus(status) == status >= 400

\* the explicit "if response.status == 404" of the first response
Has404Check(op) == op \in ReadOps

\* mutant: a 302/401/403 leaves the session as it is
AuthLost_Keep(op, s) == s

\* what a 302/401/403 does before re-authenticating
AuthLost(op, s) ==
    IF op \in ReadOps THEN ClearSession(s)
    ELSE [s EXCEPT !.authenticated = FALSE]

\* the first response is rejected when the extractor finds nothing
ChecksEmptyExtraction(op) == op \in {"get_status", "get_temperatures"}

\* mutant: the retried request is never tested for a second 302
RetryIsHardFailure_Never(branch, status) == FALSE

\* the "Still receiving 302 after re-authentication" test of the retried request
RetryIsHardFailure(branch, status) == branch = "302" /\ status = 302

\* what the extractor of a page yields: records ("data") or nothing ("empty")
Extract(body) == IF body = "ok" THEN "data" ELSE "empty"

\* mutant: an empty body returns no data without clearing the session
ReadBody_NoClear(s, t, body, checkExtraction) ==
    IF body = "empty" THEN Done(s, t, "None")
    ELSE IF checkExtraction /\ Extract(body) = "empty"
    THEN Done(ClearSession(s), t, "None")
    ELSE Done(s, t, Extract(body))

\* html = await response.text() and what follows it
ReadBody(s, t, body, checkExtraction) ==
    IF body = "empty" THEN Done(ClearSession(s), t, "None")
    ELSE IF checkExtraction /\ Extract(body) = "empty"
    THEN Done(ClearSession(s), t, "None")
    ELSE Done(s, t, Extract(body))

\* a response that is neither an auth loss nor a 404 caught by an explicit test
Accept(s, t, r, checkExtraction) ==
    IF RaisesForStatus(r.status)
    THEN Done(HandleError(t.op, s, IF r.status = 404 THEN "http404" ELSE "http"),
              t, NoData(t.op))
    ELSE IF t.op = "set_status" THEN Done(s, t, "True")
    ELSE ReadBody(s, t, r.body, checkExtraction)

\* the operation from the response of its first request on
FirstResponse(s, t, r, time) ==
    LET t1 == [t EXCEPT !.last = r]
    IN  IF r.kind = "neterr"
        THEN Done(HandleError(t.op, s, "transport"), t1, NoData(t.op))
        ELSE IF Has404Check(t.op) /\ r.status = 404
        THEN Done(ClearSession(s), t1, "None")
        ELSE IF r.status = 302
        THEN BeginAuth(AuthLost(t.op, s), [t1 EXCEPT !.branch = "302"], time)
        ELSE IF r.status \in {401, 403}
        THEN BeginAuth(AuthLost(t.op, s), [t1 EXCEPT !.branch = "401"], time)
        ELSE Accept(s, t1, r, ChecksEmptyExtraction(t.op))

\* mutant: a 302 on the retried request sends the request again
RetryResponse_Again(s, t, r) ==
    LET t1 == [t EXCEPT !.last = r]
    IN  IF r.kind = "neterr"
        THEN Done(HandleError(t.op, s, "transport"), t1, NoData(t.op))
        ELSE IF r.status = 302 THEN SendRequest(s, t1)
        ELSE Accept(s, t1, r, FALSE)

\* the operation from the response of its retried request on
RetryResponse(s, t, r) ==
    LET t1 == [t EXCEPT !.last = r]
    IN  IF r.kind = "neterr"
        THEN Done(HandleError(t.op, s, "transport"), t1, NoData(t.op))
        ELSE IF RetryIsHardFailure(t.branch, r.status)
        THEN Done(s, t1, NoData(t.op))
        ELSE Accept(s, t1, r, FALSE)

\* mutant: the operation does not look at the authenticated flag
NeedsAuth_Never(s) == FALSE

\* the session must be authenticated before the first request
NeedsAuth(s) == ~s.authenticated

\* an operation from its call to its first await (or its return)
StartOp(s, op, arg, time) ==
    LET t0 == [IdleTask EXCEPT !.op = op, !.arg = arg,
                               !.startAuth = s.authenticated]
    IN  CASE op = "authenticate" -> BeginAuth(s, t0, time)
          [] op = "logout" ->
                IF ~s.authenticated /\ arg # "force" THEN Done(s, t0, "None")
                ELSE [s |-> s, t |-> [t0 EXCEPT !.pc = "logout_get", !.nReq = 1]]
          [] OTHER ->
                IF NeedsAuth(s) THEN BeginAuth(s, t0, time)
                ELSE AfterPreAuth(s, t0)

\* what the logout GET can end with (the code looks at neither status nor body)
LogoutResponses == {Http("-", 200, "ok"), Http("-", 500, "empty"), NetErr}

\* mutant: the logout leaves the authenticated flag as it is
LogoutReturned_KeepFlag(s, t, r) == Done(s, [t EXCEPT !.last = r], "None")

\* async_logout from the end of its GET on (response r or exception)
LogoutReturned(s, t, r) ==
    Done([s EXCEPT !.authenticated = FALSE], [t EXCEPT !.last = r], "None")

(***************************************************************************)
(* Actions: one per stretch of code between two awaits.                    *)
(***************************************************************************)
\* The fields startAuth .. nReq of a task are history of its current operation:
\* authenticated at the call, the result of the authenticate() before the
\* first request (pre) and of the re-authentication (re), the login and the
\* resource response last received, the value returned, the login POSTs and
\* the resource requests sent.  They are kept for
\* the observed caller; of the other callers only the coroutine's own state
\* (operation, argument, position, branch) is kept.
Observed == "a"

Record(c, t) ==
    IF c = Observed THEN t
    ELSE [IdleTask EXCEPT !.op = t.op, !.arg = t.arg, !.pc = t.pc,
                          !.branch = t.branch]

ApplyApi(c, st) ==
    /\ authenticated' = st.s.authenticated
    /\ cookies' = st.s.cookies
    /\ last_auth_failure_time' = st.s.fail
    /\ last_successful_auth_time' = st.s.succ
    /\ last_failed_attempt' = st.s.failedAt
    /\ task' = [task EXCEPT ![c] = Record(c, st.t)]
    /\ UNCHANGED now

\* a step of the client that no host code observes
Apply(c, st) ==
    /\ ApplyApi(c, st)
    /\ UNCHANGED <<hostVars, parseVars, flow, coordVars, server_ok>>

Init ==
    /\ authenticated = FALSE
    /\ cookies = FALSE
    /\ last_auth_failure_time = None
    /\ last_successful_auth_time = None
    /\ now = 0
    /\ last_failed_attempt = None
    /\ task = [c \in Callers |-> IdleTask]
    /\ registered = FALSE
    /\ host_pc = "idle"
    /\ switch_data = [entities |-> <<>>]
    /\ logout_gets = 0
    /\ html = <<>>
    /\ status_data = [entities |-> <<>>, sensors |-> <<>>]
    /\ parse_pc = "returned"
    /\ temperatures = <<>>
    /\ events = <<>>
    /\ flow = [pc |-> "idle", step |-> "none", result |-> "none",
               error |-> "none", session |-> "none"]
    /\ server_log = <<>>
    /\ last_processed_event_date = <<>>
    /\ bus = <<>>
    /\ seen = {}
    /\ coord_data = <<>>
    /\ polls = 0
    /\ server_ok = FALSE

\* a caller invokes an operation of the client
Call(c) ==
    /\ task[c].pc \in {"idle", "done"}
    /\ \E op \in Ops : \E arg \in ArgsOf(op) :
          Apply(c, StartOp(Sess, op, arg, now))

\* the server accepts the login: it sets the session cookie and redirects,
\* and the POST (allow_redirects=True) follows the redirect
LoginRedirect(c) ==
    /\ task[c].pc = "auth_post"
    /\ Apply(c, [s |-> [Sess EXCEPT !.cookies = TRUE],
                 t |-> [task[c] EXCEPT !.pc = "auth_follow"]])

\* the final response of the login POST arrives
LoginReply(c) ==
    /\ task[c].pc \in {"auth_post", "auth_follow"}
    /\ \E resp \in LoginResponses :
          /\ resp.url = "home" => task[c].pc = "auth_follow"
          /\ Apply(c, OnLoginResponse(Sess, task[c], resp, now))

\* the login POST times out or the connection fails
LoginNetErr(c) ==
    /\ task[c].pc \in {"auth_post", "auth_follow"}
    /\ Apply(c, OnLoginError(Sess, task[c], now))

\* the first resource request is answered, or fails
FetchReply(c) ==
    /\ task[c].pc = "fetch"
    /\ \E r \in ResourceResponses \cup {NetErr} :
          Apply(c, FirstResponse(Sess, task[c], r, now))

\* the retried resource request is answered, or fails
RetryReply(c) ==
    /\ task[c].pc = "retry"
    /\ \E r \in ResourceResponses \cup {NetErr} :
          Apply(c, RetryResponse(Sess, task[c], r))

\* the logout GET is answered, or fails
LogoutReply(c) ==
    /\ task[c].pc = "logout_get"
    /\ \E r \in LogoutResponses : Apply(c, LogoutReturned(Sess, task[c], r))

\* time passes
Tick ==
    /\ now < MaxTime
    /\ now' = now + 1
    /\ UNCHANGED <<authenticated, cookies, last_auth_failure_time,
                   last_successful_auth_time, last_failed_attempt, task>>
    /\ UNCHANGED <<hostVars, parseVars, flow, coordVars, server_ok>>

\* one step of caller c
Step(c) ==
    \/ Call(c)
    \/ LoginRedirect(c)
    \/ LoginReply(c)
    \/ LoginNetErr(c)
    \/ FetchReply(c)
    \/ RetryReply(c)
    \/ LogoutReply(c)

\* operations called one after the other, while time passes
Next ==
    \/ Step(Observed)
    \/ Tick

Spec == Init /\ [][Next]_vars

\* operations of several callers overlapping (the clock stands still)
NextConc == \E c \in Callers : Step(c)

SpecConc == Init /\ [][NextConc]_vars

(***************************************************************************)
(* The status extractor, _parse_status_html.  A page is the sequence of    *)
(* its elements in document order: <span> and <i> elements, and <div>      *)
(* elements holding spans and icons.  A text is the sequence of its        *)
(* characters ("e_acute" is the letter e with an acute accent), a class    *)
(* name is the sequence of its parts between hyphens, so that Python's     *)
(* "in" on strings is computed as a search for a contiguous run.           *)
(***************************************************************************)
\* Python's  w in s  on strings
Contains(s, w) ==
    \E i \in 1..(Len(s) - Len(w) + 1) : SubSeq(s, i, i + Len(w) - 1) = w

\* str.lower() of one character
LowerChar(ch) ==
    CASE ch = "A" -> "a" [] ch = "C" -> "c" [] ch = "D" -> "d"
      [] ch = "E" -> "e" [] ch = "I" -> "i" [] ch = "L" -> "l"
      [] ch = "M" -> "m" [] ch = "N" -> "n" [] ch = "R" -> "r"
      [] ch = "S" -> "s" [] ch = "T" -> "t" [] ch = "V" -> "v"
      [] ch = "E_ACUTE" -> "e_acute"
      [] OTHER -> ch

\* str.lower()
Lower(s) == [i \in 1..Len(s) |-> LowerChar(s[i])]

\* the words the extractor looks for
WordActivated ==
    <<"a", "c", "t", "i", "v", "e_acute", "e">>

WordArmed ==
    <<"a", "r", "m", "e_acute", "e">>

WordDeactivated ==
    <<"d", "e_acute", "s", "a", "c", "t", "i", "v", "e_acute", "e">>

\* label texts of the page
TxtActivated ==
    <<"A", "l", "a", "r", "m", "e", " ", "a", "c", "t", "i", "v",
      "e_acute", "e">>

TxtDeactivated ==
    <<"A", "l", "a", "r", "m", "e", " ", "d", "e_acute", "s", "a", "c",
      "t", "i", "v", "e_acute", "e">>

TxtArmed ==
    <<"A", "L", "A", "R", "M", "E", " ", "A", "R", "M", "E_ACUTE", "E">>

TxtUnknown ==
    <<"I", "n", "c", "o", "n", "n", "u">>

Texts == {TxtActivated, TxtDeactivated, TxtArmed, TxtUnknown}

\* class names
ClsControl == <<"icon", "control">>

ClsArm == <<"icon", "control", "arm">>

ClsDisarm == <<"icon", "control", "disarm">>

ClsOther == <<"icon", "control", "partial">>

ClsPlain == <<"fa", "home">>

\* <span class=cls>text</span>
Span(cls, text) == [tag |-> "span", class |-> cls, text |-> text]

\* <i class="c1 c2 ..."></i>, classes the list of its class names
Icon(classes) == [tag |-> "i", classes |-> classes]

\* <div class=cls> children </div>
Div(cls, children) == [tag |-> "div", class |-> cls, children |-> children]

Spans ==
    { Span("highlighted", x) : x \in Texts } \cup {Span("label", TxtDeactivated)}

Icons ==
    { Icon(<<ClsArm>>), Icon(<<ClsPlain, ClsDisarm>>), Icon(<<ClsOther>>),
      Icon(<<ClsPlain>>) }

Leaves == Spans \cup Icons

\* bounds of the pages examined
MaxElems == 2

MaxChildren == 2

SeqsUpTo(S, n) == UNION { [1..k -> S] : k \in 0..n }

DivClasses == {"row status", "row"}

Elements ==
    Leaves \cup { Div(c, ch) : c \in DivClasses, ch \in SeqsUpTo(Leaves, MaxChildren) }

Pages == SeqsUpTo(Elements, MaxElems)

\* the spans and icons of a page in document order
RECURSIVE Flatten(_)
Flatten(p) ==
    IF p = <<>> THEN <<>>
    ELSE (IF Head(p).tag = "div" THEN Head(p).children ELSE <<Head(p)>>)
            \o Flatten(Tail(p))

\* find("span", class_="highlighted")
IsHighlightedSpan(e) == e.tag = "span" /\ e.class = "highlighted"

\* find("i", class_=lambda x: x and "icon-control" in x if x else False)
IsControlIcon(e) ==
    e.tag = "i" /\ \E k \in 1..Len(e.classes) : Contains(e.classes[k], ClsControl)

\* "icon-control-arm" in icon.get("class", [])
HasClass(e, cls) == \E k \in 1..Len(e.classes) : e.classes[k] = cls

\* the positions in doc of the highlighted spans, and of the control icons
LabelsOf(doc) == { i \in 1..Len(doc) : IsHighlightedSpan(doc[i]) }

ControlIconsOf(doc) == { i \in 1..Len(doc) : IsControlIcon(doc[i]) }

\* find: the first of the elements of doc at the positions I that match, as a
\* sequence of 0 or 1 element
Find(doc, I) ==
    IF I = {} THEN <<>>
    ELSE <<doc[CHOOSE i \in I : \A j \in I : i <= j]>>

\* status_data as initialised
EmptyStatus == [entities |-> <<>>, sensors |-> <<>>]

\* str.strip(), as get_text(strip=True) applies it
RECURSIVE Strip(_)
Strip(s) ==
    IF s = <<>> THEN s
    ELSE IF Head(s) = " " THEN Strip(Tail(s))
    ELSE IF s[Len(s)] = " " THEN Strip(SubSeq(s, 1, Len(s) - 1))
    ELSE s

\* status_data["entities"]["alarm"] = {..., "state": state, ...}
Alarm(d, state, status_text) ==
    [d EXCEPT !.entities =
        [e \in {"alarm"} |-> [state |-> state, status_text |-> status_text]]]

\* is_armed of the label
LabelSaysArmed(text) ==
    Contains(Lower(text), WordActivated) \/ Contains(Lower(text), WordArmed)

\* mutant: an alarm entity is created even without a label
LabelTier_Default(d, doc) == Alarm(d, FALSE, TxtUnknown)

\* the first highlighted span of the document
LabelTier(d, doc) ==
    LET f == Find(doc, LabelsOf(doc))
    IN  IF f = <<>> THEN d
        ELSE Alarm(d, LabelSaysArmed(Strip(f[1].text)), Strip(f[1].text))

\* the first control icon of the document
IconTier(d, doc) ==
    LET f == Find(doc, ControlIconsOf(doc))
    IN  IF f = <<>> THEN d
        ELSE IF HasClass(f[1], ClsArm) THEN Alarm(d, TRUE, TxtActivated)
        ELSE IF HasClass(f[1], ClsDisarm) THEN Alarm(d, FALSE, TxtDeactivated)
        ELSE d

\* "state" of a status row
RowSaysArmed(text) == ~Contains(Lower(text), WordDeactivated)

\* for row in find_all("div", class_="row status")
\* one pass of the loop, for the element e of the page
StatusRow(d, e) ==
    LET s == Find(e.children, LabelsOf(e.children))
        i == Find(e.children, ControlIconsOf(e.children))
    IN  IF e.tag = "div" /\ e.class = "row status" /\ s # <<>> /\ i # <<>>
        THEN Alarm(d, RowSaysArmed(Strip(s[1].text)), Strip(s[1].text))
        ELSE d

\* mutant: the first status row wins
RECURSIVE RowTier_FirstWins(_, _)
RowTier_FirstWins(d, p) ==
    IF p = <<>> THEN d
    ELSE StatusRow(RowTier_FirstWins(d, Tail(p)), Head(p))

RECURSIVE RowTier(_, _)
RowTier(d, p) ==
    IF p = <<>> THEN d
    ELSE RowTier(StatusRow(d, Head(p)), Tail(p))

\* _parse_status_html
ParseStatusHtml(p) ==
    RowTier(IconTier(LabelTier(EmptyStatus, Flatten(p)), Flatten(p)), p)

(***************************************************************************)
(* The temperature extractor, _parse_temperatures_html.  A page holds at   *)
(* most one <table>: its class names, whether it has a <tbody>, and its    *)
(* rows, each the sequence of its <td> cells.  "deg" is the degree sign.   *)
(***************************************************************************)
\* Python's s.replace(w, b) on strings, w not empty
RECURSIVE Replace(_, _, _)
Replace(s, w, b) ==
    IF Len(s) < Len(w) THEN s
    ELSE IF SubSeq(s, 1, Len(w)) = w
    THEN b \o Replace(SubSeq(s, Len(w) + 1, Len(s)), w, b)
    ELSE <<Head(s)>> \o Replace(Tail(s), w, b)

Digits == {"0", "1", "2", "3", "4", "5", "6", "7", "8", "9"}

\* float(s) succeeds: an optional sign, digits with at most one point
IsFloat(s) ==
    LET u == IF s # <<>> /\ Head(s) \in {"-", "+"} THEN Tail(s) ELSE s
    IN  /\ \E i \in 1..Len(u) : u[i] \in Digits
        /\ \A i \in 1..Len(u) : u[i] \in Digits \cup {"."}
        /\ Cardinality({ i \in 1..Len(u) : u[i] = "." }) <= 1

\* mutant: the slug keeps the accented letter
SensorId_NoFold(room_name) == Replace(Lower(room_name), <<" ">>, <<"_">>)

\* sensor_id = room_name.lower().replace(" ", "_").replace("e_acute", "e")
\*                      .replace("&eacute;", "e")
SensorId(room_name) ==
    Replace(Replace(Replace(Lower(room_name), <<" ">>, <<"_">>),
                    <<"e_acute">>, <<"e">>),
            <<"&", "e", "a", "c", "u", "t", "e", ";">>, <<"e">>)

\* room names of the page
NameSejour ==
    <<"S", "e_acute", "j", "o", "u", "r">>

NameSalleDeBain ==
    <<"S", "a", "l", "l", "e", " ", "d", "e", " ", "b", "a", "i", "n">>

RoomNames == {NameSejour, NameSalleDeBain, <<>>}

\* a <td>: its text outside any <sup>, and the text of its <sup> (if any)
Cell(text, sup) == [text |-> text, sup |-> sup]

NameCells == { Cell(n, <<>>) : n \in RoomNames }

TempCells ==
    { Cell(<<"2", "1", ".", "5">>, <<"deg", "C">>),
      Cell(<<"1", "9", " ", "deg", "C">>, <<>>),
      Cell(<<"-", "-">>, <<>>),
      Cell(<<>>, <<>>) }

TempRows ==
    { <<n>> : n \in NameCells } \cup { <<n, v>> : n \in NameCells, v \in TempCells }

\* class names of a table
ClsTable == <<"table">>

ClsTableStriped == <<"table", "striped">>

ClsGrid == <<"grid">>

\* a page without table, and a page with one table
NoTable == [table |-> FALSE, classes |-> <<>>, tbody |-> FALSE, rows |-> <<>>]

Table(classes, tbody, rows) ==
    [table |-> TRUE, classes |-> classes, tbody |-> tbody, rows |-> rows]

MaxRows == 2

TablePages(Rows) ==
    {NoTable} \cup
    { Table(c, b, r) : c \in {<<ClsTable>>, <<ClsTableStriped>>, <<ClsGrid>>},
                       b \in BOOLEAN, r \in SeqsUpTo(Rows, MaxRows) }

TempPages == TablePages(TempRows)

\* soup.find("table", class_=lambda x: x and "table" in x if x else False)
IsTemperatureTable(p) ==
    p.table /\ \E k \in 1..Len(p.classes) : Contains(p.classes[k], ClsTable)

\* temperatures[sensor_id] = {"name": ..., "value": ..., "unit": ...}
PutReading(temps, id, name, value) ==
    [k \in DOMAIN temps \cup {id} |->
        IF k = id THEN [name |-> name, value |-> value] ELSE temps[k]]

\* one pass of "for row in rows"
TemperatureOfRow(temps, cells) ==
    IF Len(cells) < 2 THEN temps
    ELSE LET room_name == Strip(cells[1].text \o cells[1].sup)
             temp_text == Strip(cells[2].text)
             temp_value_str ==
                 Strip(Replace(Replace(temp_text, <<"deg", "C">>, <<>>),
                               <<"deg">>, <<>>))
         IN  IF room_name = <<>> \/ temp_text = <<>> THEN temps
             ELSE IF ~IsFloat(temp_value_str) THEN temps
             ELSE PutReading(temps, SensorId(room_name), room_name,
                             temp_value_str)

RECURSIVE TemperaturesOfRows(_, _)
TemperaturesOfRows(temps, rows) ==
    IF rows = <<>> THEN temps
    ELSE TemperaturesOfRows(TemperatureOfRow(temps, Head(rows)), Tail(rows))

\* _parse_temperatures_html
ParseTemperaturesHtml(p) ==
    IF ~IsTemperatureTable(p) \/ ~p.tbody THEN <<>>
    ELSE TemperaturesOfRows(<<>>, p.rows)

(***************************************************************************)
(* The events extractor, _parse_events_html, on the same kind of page.  A  *)
(* cell of the log table is its text and the class names of its <i> (none  *)
(* when it has no <i>); "a_grave" is the letter a with a grave accent.     *)
(***************************************************************************)
\* int() of one digit
DigitValue(ch) ==
    CASE ch = "0" -> 0 [] ch = "1" -> 1 [] ch = "2" -> 2 [] ch = "3" -> 3
      [] ch = "4" -> 4 [] ch = "5" -> 5 [] ch = "6" -> 6 [] ch = "7" -> 7
      [] ch = "8" -> 8 [] ch = "9" -> 9

AllDigits(s) == \A i \in 1..Len(s) : s[i] \in Digits

\* int() of a run of digits
RECURSIVE Number(_)
Number(s) ==
    IF s = <<>> THEN 0 ELSE 10 * Number(SubSeq(s, 1, Len(s) - 1)) + DigitValue(s[Len(s)])

\* event_date is None
NoDate == <<>>

\* datetime.strptime(s, "%d/%m/%Y %H:%M") for two-digit day, month, hour and
\* minute: the date as <<year, month, day, hour, minute>>, NoDate on ValueError
Strptime(s) ==
    LET time == Strip(SubSeq(s, 11, Len(s)))
    IN  IF /\ Len(s) >= 16 /\ s[3] = "/" /\ s[6] = "/" /\ s[11] = " "
           /\ Len(time) = 5 /\ time[3] = ":"
           /\ AllDigits(SubSeq(s, 1, 2)) /\ AllDigits(SubSeq(s, 4, 5))
           /\ AllDigits(SubSeq(s, 7, 10))
           /\ AllDigits(SubSeq(time, 1, 2)) /\ AllDigits(SubSeq(time, 4, 5))
           /\ Number(SubSeq(s, 1, 2)) \in 1..31
           /\ Number(SubSeq(s, 4, 5)) \in 1..12
           /\ Number(SubSeq(time, 1, 2)) \in 0..23
           /\ Number(SubSeq(time, 4, 5)) \in 0..59
        THEN <<Number(SubSeq(s, 7, 10)), Number(SubSeq(s, 4, 5)),
               Number(SubSeq(s, 1, 2)), Number(SubSeq(time, 1, 2)),
               Number(SubSeq(time, 4, 5))>>
        ELSE NoDate

\* date_text.replace("a_grave", "").replace("h", ":").strip() and strptime
ParseEventDate(date_text) ==
    Strptime(Strip(Replace(Replace(date_text, <<"a_grave">>, <<>>),
                           <<"h">>, <<":">>)))

\* date texts of the page
DateOlder ==
    <<"1", "2", "/", "0", "3", "/", "2", "0", "2", "4", " ", "a_grave",
      " ", "1", "4", "h", "3", "0">>

DateNewer ==
    <<"1", "3", "/", "0", "3", "/", "2", "0", "2", "4", " ", "a_grave",
      " ", "0", "9", "h", "0", "5">>

DateBadMonth ==
    <<"3", "1", "/", "1", "3", "/", "2", "0", "2", "4", " ", "a_grave",
      " ", "1", "4", "h", "3", "0">>

DateWords ==
    <<"H", "i", "e", "r", " ", "a_grave", " ", "1", "4", "h", "3", "0">>

DateTexts == {DateOlder, DateNewer, DateBadMonth, DateWords}

\* a <td> of the log table
EventCell(icon, text) == [icon |-> icon, text |-> text]

EventIcons == {<<ClsArm>>, <<ClsPlain, ClsDisarm>>, <<>>}

EventRows ==
    { <<EventCell(i, <<>>), EventCell(<<>>, d), EventCell(<<>>, TxtActivated)>> :
        i \in EventIcons, d \in DateTexts }
    \cup { <<EventCell(<<ClsArm>>, <<>>), EventCell(<<>>, d)>> : d \in DateTexts }

EventPages == TablePages(EventRows)

\* soup.find("table", class_="table")
IsEventsTable(p) == p.table /\ \E k \in 1..Len(p.classes) : p.classes[k] = ClsTable

\* event_type of the icon cell
EventType(icon) ==
    IF \E k \in 1..Len(icon) : icon[k] = ClsArm THEN "arm"
    ELSE IF \E k \in 1..Len(icon) : icon[k] = ClsDisarm THEN "disarm"
    ELSE "unknown"

\* the event built from a row of at least 3 cells
EventOfRow(cells) ==
    [type |-> EventType(cells[1].icon),
     date |-> ParseEventDate(Strip(cells[2].text)),
     date_text |-> Strip(cells[2].text),
     message |-> Strip(cells[3].text)]

\* mutant: a row whose date does not parse is dropped
RECURSIVE EventsOfRows_SkipUnparsed(_)
EventsOfRows_SkipUnparsed(rows) ==
    IF rows = <<>> THEN <<>>
    ELSE (IF Len(Head(rows)) >= 3 /\ EventOfRow(Head(rows)).date # NoDate
          THEN <<EventOfRow(Head(rows))>> ELSE <<>>)
            \o EventsOfRows_SkipUnparsed(Tail(rows))

\* for row in rows: ... events.append(event)
RECURSIVE EventsOfRows(_)
EventsOfRows(rows) ==
    IF rows = <<>> THEN <<>>
    ELSE (IF Len(Head(rows)) >= 3 THEN <<EventOfRow(Head(rows))>> ELSE <<>>)
            \o EventsOfRows(Tail(rows))

\* _parse_events_html
ParseEventsHtml(p) ==
    IF ~IsEventsTable(p) \/ ~p.tbody THEN <<>> ELSE EventsOfRows(p.rows)

\* no configuration flow is in progress
NoFlow ==
    [pc |-> "idle", step |-> "none", result |-> "none", error |-> "none",
     session |-> "none"]

\* the client, the host and the configuration flow as constructed
InitOther ==
    /\ authenticated = FALSE
    /\ cookies = FALSE
    /\ last_auth_failure_time = None
    /\ last_successful_auth_time = None
    /\ now = 0
    /\ last_failed_attempt = None
    /\ task = [c \in Callers |-> IdleTask]
    /\ registered = FALSE
    /\ host_pc = "idle"
    /\ switch_data = [entities |-> <<>>]
    /\ logout_gets = 0
    /\ flow = NoFlow
    /\ server_log = <<>>
    /\ last_processed_event_date = <<>>
    /\ bus = <<>>
    /\ seen = {}
    /\ coord_data = <<>>
    /\ polls = 0
    /\ server_ok = FALSE

\* _parse_temperatures_html is called with a page
InitTemps ==
    /\ InitOther
    /\ html \in TempPages
    /\ parse_pc = "called"
    /\ status_data = EmptyStatus
    /\ temperatures = <<>>
    /\ events = <<>>

\* _parse_temperatures_html runs to its return
ParseTemperatures ==
    /\ parse_pc = "called"
    /\ temperatures' = ParseTemperaturesHtml(html)
    /\ parse_pc' = "returned"
    /\ UNCHANGED <<html, status_data, events, hostVars, flow, coordVars, server_ok>>
    /\ UNCHANGED <<authenticated, cookies, last_auth_failure_time,
                   last_successful_auth_time, now, last_failed_attempt, task>>

NextTemps == ParseTemperatures

SpecTemps == InitTemps /\ [][NextTemps]_vars

\* _parse_events_html is called with a page
InitEvents ==
    /\ InitOther
    /\ html \in EventPages
    /\ parse_pc = "called"
    /\ status_data = EmptyStatus
    /\ temperatures = <<>>
    /\ events = <<>>

\* _parse_events_html runs to its return
ParseEvents ==
    /\ parse_pc = "called"
    /\ events' = ParseEventsHtml(html)
    /\ parse_pc' = "returned"
    /\ UNCHANGED <<html, status_data, temperatures, hostVars, flow,
                   coordVars, server_ok>>
    /\ UNCHANGED <<authenticated, cookies, last_auth_failure_time,
                   last_successful_auth_time, now, last_failed_attempt, task>>

NextEvents == ParseEvents

SpecEvents == InitEvents /\ [][NextEvents]_vars

\* _parse_status_html is called with a page
InitStatus ==
    /\ authenticated = FALSE
    /\ cookies = FALSE
    /\ last_auth_failure_time = None
    /\ last_successful_auth_time = None
    /\ now = 0
    /\ last_failed_attempt = None
    /\ task = [c \in Callers |-> IdleTask]
    /\ registered = FALSE
    /\ host_pc = "idle"
    /\ switch_data = [entities |-> <<>>]
    /\ logout_gets = 0
    /\ html \in Pages
    /\ status_data = EmptyStatus
    /\ parse_pc = "called"
    /\ temperatures = <<>>
    /\ events = <<>>
    /\ flow = NoFlow
    /\ server_log = <<>>
    /\ last_processed_event_date = <<>>
    /\ bus = <<>>
    /\ seen = {}
    /\ coord_data = <<>>
    /\ polls = 0
    /\ server_ok = FALSE

\* _parse_status_html runs to its return
ParseStatus ==
    /\ parse_pc = "called"
    /\ status_data' = ParseStatusHtml(html)
    /\ parse_pc' = "returned"
    /\ UNCHANGED <<html, temperatures, events, hostVars, flow, coordVars, server_ok>>
    /\ UNCHANGED <<authenticated, cookies, last_auth_failure_time,
                   last_successful_auth_time, now, last_failed_attempt, task>>

NextStatus == ParseStatus

SpecStatus == InitStatus /\ [][NextStatus]_vars

(***************************************************************************)
(* The host side of one config entry: setup, the switch's coordinator and  *)
(* the shutdown listener.  The host awaits the client's operations, which  *)
(* run as the observed caller's coroutine.                                 *)
(***************************************************************************)
apiVars == <<authenticated, cookies, last_auth_failure_time,
             last_successful_auth_time, now, last_failed_attempt, task>>

\* {"entities": {}}
NoEntities == [entities |-> <<>>]

\* what _parse_status_html returns for a page that shows the alarm state
StatusData(armed) ==
    Alarm(EmptyStatus, armed, IF armed THEN TxtActivated ELSE TxtDeactivated)

\* MaisonProtegeeCoordinator._async_update_data, from the end of its await on:
\* ret is what async_get_status returned ("data", "empty", "None") or "raise"
UpdateData(ret, armed) ==
    IF ret = "data" THEN StatusData(armed) ELSE NoEntities

\* MaisonProtegeeSwitch.is_on of the entity "alarm"
IsOn(data) ==
    IF "alarm" \in DOMAIN data.entities THEN data.entities["alarm"].state
    ELSE FALSE

\* async_setup_entry up to its await of api.async_authenticate()
SetupEntry ==
    /\ host_pc = "idle" /\ ~registered
    /\ ApplyApi(Observed, StartOp(Sess, "authenticate", "-", now))
    /\ host_pc' = "setup"
    /\ UNCHANGED <<registered, switch_data, logout_gets>>
    /\ UNCHANGED <<parseVars, flow, coordVars, server_ok>>

\* async_setup_entry after authenticate(): the entry is stored unless it raised
SetupReturns ==
    /\ host_pc = "setup" /\ task[Observed].pc = "done"
    /\ registered' = (task[Observed].ret # "raise")
    /\ host_pc' = "idle"
    /\ UNCHANGED <<switch_data, logout_gets>>
    /\ UNCHANGED apiVars
    /\ UNCHANGED <<parseVars, flow, coordVars, server_ok>>

\* the switch coordinator's refresh calls api.async_get_status()
Poll ==
    /\ host_pc = "idle" /\ registered
    /\ ApplyApi(Observed, StartOp(Sess, "get_status", "-", now))
    /\ host_pc' = "poll"
    /\ UNCHANGED <<registered, switch_data, logout_gets>>
    /\ UNCHANGED <<parseVars, flow, coordVars, server_ok>>

\* the refresh ends: the coordinator's data is what _async_update_data returns
PollReturns ==
    /\ host_pc = "poll" /\ task[Observed].pc = "done"
    /\ \E armed \in BOOLEAN :
          switch_data' = UpdateData(task[Observed].ret, armed)
    /\ host_pc' = "idle"
    /\ UNCHANGED <<registered, logout_gets>>
    /\ UNCHANGED apiVars
    /\ UNCHANGED <<parseVars, flow, coordVars, server_ok>>

\* homeassistant_stop: the listener calls async_logout() of each stored entry
Shutdown ==
    /\ host_pc = "idle"
    /\ IF registered
       THEN /\ ApplyApi(Observed, StartOp(Sess, "logout", "plain", now))
            /\ host_pc' = "shutdown"
       ELSE /\ host_pc' = "stopped"
            /\ UNCHANGED apiVars
    /\ UNCHANGED <<registered, switch_data, logout_gets>>
    /\ UNCHANGED <<parseVars, flow, coordVars, server_ok>>

\* the listener's async_logout() has returned
ShutdownReturns ==
    /\ host_pc = "shutdown" /\ task[Observed].pc = "done"
    /\ logout_gets' = task[Observed].nReq
    /\ host_pc' = "stopped"
    /\ UNCHANGED <<registered, switch_data>>
    /\ UNCHANGED apiVars
    /\ UNCHANGED <<parseVars, flow, coordVars, server_ok>>

NextHost ==
    \/ SetupEntry
    \/ SetupReturns
    \/ Poll
    \/ PollReturns
    \/ Shutdown
    \/ ShutdownReturns
    \/ LoginRedirect(Observed)
    \/ LoginReply(Observed)
    \/ LoginNetErr(Observed)
    \/ FetchReply(Observed)
    \/ RetryReply(Observed)
    \/ LogoutReply(Observed)

SpecHost == Init /\ [][NextHost]_vars

(***************************************************************************)
(* The configuration flow (config_flow.py).  A step that tests credentials *)
(* opens an aiohttp session of its own and constructs a new client, whose  *)
(* authenticate() runs as the observed caller's coroutine.                 *)
(***************************************************************************)
\* MaisonProtegeeAPI(username, password, session) on a new ClientSession
FreshSess ==
    [authenticated |-> FALSE, cookies |-> FALSE, fail |-> None, succ |-> None,
     failedAt |-> None]

\* a step returns without testing credentials
FlowReturns(step, result, error) ==
    [pc |-> "done", step |-> step, result |-> result, error |-> error,
     session |-> "none"]

\* a step up to its await of api.async_authenticate()
FlowAuthenticates(step) ==
    /\ ApplyApi(Observed, StartOp(FreshSess, "authenticate", "-", now))
    /\ flow' = [pc |-> "auth", step |-> step, result |-> "none",
                error |-> "none", session |-> "open"]

\* mutant: the entry is created unless authenticate() raised
FlowFinish_EntryOnFalse(f, ret, exc) ==
    [f EXCEPT !.pc = "done", !.session = "closed",
              !.result = IF ret = "raise" THEN "form" ELSE "entry",
              !.error = IF ret = "raise" THEN "unknown" ELSE "none"]

\* a step from the end of its await on: ret is what authenticate() returned,
\* or "raise" with the exception exc
FlowFinish(f, ret, exc) ==
    [f EXCEPT !.pc = "done", !.session = "closed",
              !.result = IF ret = "True" THEN "entry" ELSE "form",
              !.error = IF ret = "True" THEN "none"
                        ELSE IF ret = "False" THEN "invalid_auth"
                        ELSE IF exc = "ClientError" THEN "cannot_connect"
                        ELSE "unknown"]

\* async_step_user (async_step_reauth calls it): no input, a user name that
\* is already configured, or new credentials
StepUser ==
    /\ flow.pc \in {"idle", "done"}
    /\ \E step \in {"user", "reauth"} :
       \E input \in {"none", "configured", "new"} :
          CASE input = "none" ->
                  /\ flow' = FlowReturns(step, "form", "none")
                  /\ UNCHANGED apiVars
            [] input = "configured" ->
                  /\ flow' = FlowReturns(step, "abort", "none")
                  /\ UNCHANGED apiVars
            [] input = "new" -> FlowAuthenticates(step)
    /\ UNCHANGED <<hostVars, parseVars, coordVars, server_ok>>

\* async_step_init of the options flow: no input, unchanged credentials,
\* changed credentials with or without a password to use
StepInit ==
    /\ flow.pc \in {"idle", "done"}
    /\ \E input \in {"none", "unchanged", "changed", "no_password"} :
          CASE input = "none" ->
                  /\ flow' = FlowReturns("init", "form", "none")
                  /\ UNCHANGED apiVars
            [] input = "unchanged" ->
                  /\ flow' = FlowReturns("init", "entry", "none")
                  /\ UNCHANGED apiVars
            [] input = "no_password" ->
                  /\ flow' = FlowReturns("init", "form", "password_required")
                  /\ UNCHANGED apiVars
            [] input = "changed" -> FlowAuthenticates("init")
    /\ UNCHANGED <<hostVars, parseVars, coordVars, server_ok>>

\* authenticate() has returned or raised: the step ends
StepReturns ==
    /\ flow.pc = "auth" /\ task[Observed].pc = "done"
    /\ \E exc \in {"ClientError", "TimeoutError"} :
          flow' = FlowFinish(flow, task[Observed].ret, exc)
    /\ UNCHANGED <<apiVars, hostVars, parseVars, coordVars, server_ok>>

NextFlow ==
    \/ StepUser
    \/ StepInit
    \/ StepReturns
    \/ LoginRedirect(Observed)
    \/ LoginReply(Observed)
    \/ LoginNetErr(Observed)

SpecFlow == Init /\ [][NextFlow]_vars

(***************************************************************************)
(* The events coordinator (sensor.py 159-231).  The server keeps a log of  *)
(* events, newest first, and serves it as the table of the events page;    *)
(* every update of the coordinator fetches that page through the client    *)
(* and fires on the host bus the events it takes for new.  Each event of   *)
(* the log carries its own message, which identifies it on the bus.        *)
(***************************************************************************)
MaxLog == 3

MaxPolls == 3

DigitChar(n) ==
    CASE n = 0 -> "0" [] n = 1 -> "1" [] n = 2 -> "2" [] n = 3 -> "3"
      [] n = 4 -> "4" [] n = 5 -> "5" [] n = 6 -> "6" [] n = 7 -> "7"
      [] n = 8 -> "8" [] n = 9 -> "9"

TwoDigits(n) == <<DigitChar(n \div 10), DigitChar(n % 10)>>

\* event_date.isoformat(): "YYYY-MM-DDTHH:MM:00"
IsoFormat(d) ==
    TwoDigits(d[1] \div 100) \o TwoDigits(d[1] % 100) \o <<"-">>
        \o TwoDigits(d[2]) \o <<"-">> \o TwoDigits(d[3]) \o <<"T">>
        \o TwoDigits(d[4]) \o <<":">> \o TwoDigits(d[5]) \o <<":", "0", "0">>

\* event.get("date"): the ISO string, NoDate for None
DateOf(event) ==
    IF event.date = NoDate THEN NoDate ELSE IsoFormat(event.date)

\* ord() of the characters of an ISO date
Ord(ch) ==
    CASE ch \in Digits -> 48 + DigitValue(ch)
      [] ch = "-" -> 45 [] ch = ":" -> 58 [] ch = "T" -> 84

\* a > b on Python strings
RECURSIVE StrGreater(_, _)
StrGreater(a, b) ==
    IF a = <<>> THEN FALSE
    ELSE IF b = <<>> THEN TRUE
    ELSE IF Head(a) = Head(b) THEN StrGreater(Tail(a), Tail(b))
    ELSE Ord(Head(a)) > Ord(Head(b))

\* reversed(new_events)
RECURSIVE Reversed(_)
Reversed(s) ==
    IF s = <<>> THEN <<>> ELSE Reversed(Tail(s)) \o <<Head(s)>>

\* _fire_new_events: the events put on the bus, in the order fired
FireNewEvents(new_events) == Reversed(new_events)

\* the loop collecting new_events: the leading events dated after last,
\* up to the first one that is not (break)
RECURSIVE NewEvents(_, _)
NewEvents(evs, last) ==
    IF evs = <<>> THEN <<>>
    ELSE IF DateOf(Head(evs)) # NoDate /\ StrGreater(DateOf(Head(evs)), last)
    THEN <<Head(evs)>> \o NewEvents(Tail(evs), last)
    ELSE <<>>

\* _async_update_data once async_get_events() has returned the non-empty
\* list evs: the new _last_processed_event_date and the events fired
EventsUpdate(evs, last) ==
    IF last = NoDate
    THEN [last |-> DateOf(evs[1]), fired |-> FireNewEvents(evs)]
    ELSE LET new_events == NewEvents(evs, last)
         IN  IF new_events # <<>>
             THEN [last |-> DateOf(new_events[1]),
                   fired |-> FireNewEvents(new_events)]
             ELSE [last |-> last, fired |-> <<>>]

\* date texts the server writes in its log
LogDateTexts == {DateOlder, DateNewer, DateWords}

\* the row of the n-th event of the log
LogRow(n, d) ==
    <<EventCell(<<ClsArm>>, <<>>), EventCell(<<>>, d),
      EventCell(<<>>, <<DigitChar(n)>>)>>

\* the events page the server serves
LogPage == Table(<<ClsTable>>, TRUE, server_log)

\* the log is chronological: a dated new event is not older than the dated
\* events already logged
NotOlder(d) ==
    \A i \in 1..Len(server_log) :
        LET o == ParseEventDate(server_log[i][2].text)
        IN  (o # NoDate /\ ParseEventDate(d) # NoDate) =>
                ~StrGreater(IsoFormat(o), IsoFormat(ParseEventDate(d)))

\* something happens in the house: the server puts an event at the head
\* of its log
ServerLogs ==
    /\ Len(server_log) < MaxLog
    /\ \E d \in LogDateTexts :
          /\ NotOlder(d)
          /\ server_log' = <<LogRow(Len(server_log) + 1, d)>> \o server_log
    /\ UNCHANGED <<last_processed_event_date, bus, seen, coord_data, polls>>
    /\ UNCHANGED <<apiVars, hostVars, parseVars, flow, server_ok>>

\* the messages of a list of events
Messages(evs) == { evs[i].message : i \in 1..Len(evs) }

\* one update of the coordinator: async_get_events() returns the events of
\* the page, or None / raises
PollEvents ==
    /\ polls < MaxPolls
    /\ polls' = polls + 1
    /\ \E r \in {"events", "none"} :
          LET evs == ParseEventsHtml(LogPage)
              u == EventsUpdate(evs, last_processed_event_date)
          IN  IF r = "none" \/ evs = <<>>
              THEN /\ coord_data' = <<>>
                   /\ UNCHANGED <<last_processed_event_date, bus, seen>>
              ELSE /\ coord_data' = evs
                   /\ last_processed_event_date' = u.last
                   /\ bus' = bus \o u.fired
                   /\ seen' = seen \cup Messages(evs)
    /\ UNCHANGED server_log
    /\ UNCHANGED <<apiVars, hostVars, parseVars, flow, server_ok>>

NextCoord == ServerLogs \/ PollEvents

SpecCoord == Init /\ [][NextCoord]_vars

(***************************************************************************)
(* The status poll against a server that recovers.  The switch coordinator *)
(* calls get_status() again after every update_interval; every request has *)
(* a client timeout, so each of them ends; the clock advances.  Until the  *)
(* server recovers it answers anything; from then on it accepts the        *)
(* credentials (cookie, redirect to the home page) and answers the status  *)
(* request with 200 and a page the extractor recognizes.  The clock of the *)
(* model stops at MaxTime, so the server recovers early enough for a       *)
(* backoff armed before to be seen expiring.                               *)
(***************************************************************************)
LoginAccepted == Http("home", 200, "other")

StatusPage == Http("-", 200, "ok")

\* the coordinator's timer fires: get_status() is called
LivePoll ==
    /\ Call(Observed)
    /\ task'[Observed].op = "get_status"

LiveLoginRedirect ==
    /\ task[Observed].op = "get_status"
    /\ LoginRedirect(Observed)

LiveLoginReply ==
    /\ LoginReply(Observed)
    /\ server_ok => task'[Observed].loginResp = LoginAccepted

LiveLoginNetErr ==
    /\ ~server_ok
    /\ LoginNetErr(Observed)

LiveFetchReply ==
    /\ FetchReply(Observed)
    /\ server_ok => task'[Observed].last = StatusPage

LiveRetryReply ==
    /\ RetryReply(Observed)
    /\ server_ok => task'[Observed].last = StatusPage

\* from now on the server accepts the credentials and serves the status page
ServerRecovers ==
    /\ ~server_ok
    /\ now + AUTH_RETRY_DELAY <= MaxTime
    /\ server_ok' = TRUE
    /\ UNCHANGED <<apiVars, hostVars, parseVars, flow, coordVars>>

NextLive ==
    \/ LivePoll
    \/ LiveLoginRedirect
    \/ LiveLoginReply
    \/ LiveLoginNetErr
    \/ LiveFetchReply
    \/ LiveRetryReply
    \/ Tick
    \/ ServerRecovers

\* the timer keeps firing, every request ends, time advances
Fairness ==
    /\ WF_vars(LivePoll)
    /\ WF_vars(LiveLoginRedirect)
    /\ WF_vars(LiveLoginReply)
    /\ WF_vars(LiveFetchReply)
    /\ WF_vars(LiveRetryReply)
    /\ WF_vars(Tick)

SpecLive == Init /\ [][NextLive]_vars /\ Fairness

(***************************************************************************)
(* Properties.                                                             *)
(***************************************************************************)
LoginPcs == {"auth_post", "auth_follow"}

\* the result of the latest authenticate() of a task ("none" when none returned)
AuthResult(t) ==
    IF t.op = "authenticate" THEN (IF t.pc = "done" THEN t.ret ELSE "none")
    ELSE IF t.branch = "none" THEN t.pre
    ELSE t.re

\* the observed caller sends a login POST in this step
PostSent ==
    task'[Observed].pc = "auth_post" /\ task[Observed].pc # "auth_post"

\* an authenticate() of the observed caller returns or raises in this step
AuthReturns ==
    \/ task[Observed].pc \in LoginPcs /\ task'[Observed].pc \notin LoginPcs
    \/ task[Observed].pc \notin LoginPcs
          /\ task'[Observed].loginResp = Blocked
          /\ task'[Observed] # task[Observed]

\* C1 (as claimed): after an authenticate() failed at time T, whatever the
\* failure, no authenticate() called before T + 5 minutes sends a login POST.
C1_NoPostInCooldown ==
    [][ (task'[Observed].op = "authenticate" /\ PostSent)
            => (last_failed_attempt = None
                \/ now - last_failed_attempt >= AUTH_RETRY_DELAY) ]_vars

\* C2: in every resource operation, a 302 on the first request followed by a
\* successful re-authentication leads to exactly one retried request (two
\* requests in all, one re-authentication); when that retry is answered 302 the
\* operation returns no data / false.
C2_OneRetryAfter302 ==
    LET o == task[Observed]
    IN  (o.op \in ResourceOps /\ o.branch = "302" /\ o.re = "True") =>
            /\ o.pc \in {"retry", "done"}
            /\ o.nReq = 2
            /\ o.nLogin = (IF o.startAuth THEN 1 ELSE 2)
            /\ (o.pc = "done" /\ o.last.status = 302) => o.ret = NoData(o.op)

C2_Witness ==
    LET o == task[Observed]
    IN  /\ o.op = "get_status" /\ o.pc = "done"
        /\ o.branch = "302" /\ o.re = "True"
        /\ o.last.status = 302 /\ o.ret = "None" /\ o.nReq = 2

\* C3 (as claimed): whenever a resource request of one of the four operations
\* is answered 404, the operation returns no data / false with the cookie
\* store cleared and authenticated = false.
C3_404ClearsSession ==
    LET o == task[Observed]
    IN  (o.op \in ResourceOps /\ o.pc = "done" /\ o.last.status = 404) =>
            /\ ~cookies
            /\ ~authenticated
            /\ o.ret = NoData(o.op)

\* C4: a resource operation called with authenticated = false calls
\* authenticate() before any resource request; a request is only sent after
\* that login returned true, and when it returns false the operation returns
\* no data / false at once with no request sent.
C4_AuthBeforeRequest ==
    LET o == task[Observed]
    IN  (o.op \in ResourceOps /\ ~o.startAuth) =>
            /\ o.nReq > 0 => o.pre = "True"
            /\ o.pre = "none" => (o.pc \in LoginPcs /\ o.nLogin = 1)
            /\ o.pre = "False" =>
                  (o.nReq = 0 /\ o.pc = "done" /\ o.ret = NoData(o.op))

C4_Witness ==
    LET o == task[Observed]
    IN  /\ o.op = "set_status" /\ o.arg = "arm" /\ ~o.startAuth
        /\ o.pre = "False" /\ o.nLogin = 1 /\ o.nReq = 0
        /\ o.pc = "done" /\ o.ret = "False"

\* C5 (as claimed): no resource operation ever raises to its caller.
C5_NeverRaises ==
    task[Observed].op \in ResourceOps => task[Observed].ret # "raise"

\* C6 (as claimed): at most one login POST is in flight at any time.
C6_OneLoginInFlight ==
    Cardinality({c \in Callers : task[c].pc \in LoginPcs}) <= 1

\* C7 (as claimed): authenticated = true implies that the cookie store holds a
\* session cookie.
C7_AuthenticatedHasCookie ==
    authenticated => cookies

\* C8: authenticate() returns true exactly when the login POST was answered
\* with a final URL at the home path; an answer whose final URL is not the
\* home path (a 200 included) leaves authenticated unchanged.
C8_SuccessIffHomeUrl ==
    [][ AuthReturns =>
          LET o == task'[Observed]
          IN  /\ AuthResult(o) = "True"
                    <=> (o.loginResp.kind = "http" /\ o.loginResp.url = "home")
              /\ (o.loginResp.kind = "http" /\ o.loginResp.url # "home")
                    => authenticated' = authenticated ]_vars

C8_Witness ==
    LET o == task[Observed]
    IN  /\ o.op = "authenticate" /\ o.pc = "done" /\ o.ret = "False"
        /\ o.loginResp = Http("other", 200, "other")
        /\ authenticated

\* C9: a successful login sets authenticated, records the success time and
\* resets the failure time to None; hence a recorded failure time is never
\* older than the last success.
C9_SuccessClearsFailure ==
    [][ /\ (AuthReturns /\ AuthResult(task'[Observed]) = "True") =>
              /\ authenticated'
              /\ last_successful_auth_time' = now
              /\ last_auth_failure_time' = None
        /\ (last_auth_failure_time' # None /\ last_successful_auth_time' # None)
              => last_auth_failure_time' >= last_successful_auth_time' ]_vars

C9_Witness ==
    LET o == task[Observed]
    IN  /\ o.op = "authenticate" /\ o.pc = "done" /\ o.ret = "True"
        /\ last_failed_attempt # None
        /\ last_successful_auth_time = now
        /\ now >= last_failed_attempt + AUTH_RETRY_DELAY
        /\ last_auth_failure_time = None
        /\ authenticated

\* C10: when the login POST fails with a transport error, authenticate()
\* raises and records the failure time, so that the backoff is armed.
C10_TransportErrorRaisesAndArms ==
    [][ (AuthReturns /\ task'[Observed].loginResp = NetErr) =>
          /\ AuthResult(task'[Observed]) = "raise"
          /\ last_auth_failure_time' = now
          /\ ~ShouldRetryAuth(last_auth_failure_time', now) ]_vars

C10_Witness ==
    LET o == task[Observed]
    IN  /\ o.op = "authenticate" /\ o.pc = "done" /\ o.ret = "raise"
        /\ o.loginResp = NetErr
        /\ last_auth_failure_time = now

\* C11 (as claimed): when the login is answered 200 with the login form
\* (credentials invalid), authenticate() returns false and records the failure
\* timestamp, so that the backoff is armed.
C11_InvalidCredentialsArm ==
    [][ (AuthReturns /\ task'[Observed].loginResp = Http("other", 200, "form")) =>
          /\ AuthResult(task'[Observed]) = "False"
          /\ last_auth_failure_time' = now
          /\ ~ShouldRetryAuth(last_auth_failure_time', now) ]_vars

\* C12: when the login is answered 200, not at the home path, with the
\* "session already open" phrase in the body, authenticate() returns false,
\* records the failure timestamp (the backoff is armed) and leaves
\* authenticated unchanged.
C12_AlreadyOpenArms ==
    [][ (AuthReturns
            /\ task'[Observed].loginResp = Http("other", 200, "already_open")) =>
          /\ AuthResult(task'[Observed]) = "False"
          /\ last_auth_failure_time' = now
          /\ ~ShouldRetryAuth(last_auth_failure_time', now)
          /\ authenticated' = authenticated ]_vars

C12_Witness ==
    LET o == task[Observed]
    IN  /\ o.op = "authenticate" /\ o.pc = "done" /\ o.ret = "False"
        /\ o.loginResp = Http("other", 200, "already_open")
        /\ last_auth_failure_time = now

\* C13 (as claimed): set_status called with an action other than "arm" or
\* "disarm" returns false and never sends a command request.
C13_BadActionReturnsFalse ==
    LET o == task[Observed]
    IN  (o.op = "set_status" /\ o.arg = "bogus") =>
          /\ o.nReq = 0
          /\ o.pc = "done" => o.ret = "False"

\* C14: when a resource request (the first or the retried one) of any of the
\* four operations fails with a timeout or a connection error, the operation
\* returns no data / false and authenticated is false when it returns.
C14_TransportErrorDegrades ==
    [][ (task[Observed].pc \in {"fetch", "retry"}
            /\ task'[Observed].pc # task[Observed].pc
            /\ task'[Observed].last = NetErr) =>
          /\ task'[Observed].pc = "done"
          /\ task'[Observed].op \in ResourceOps
          /\ task'[Observed].ret = NoData(task'[Observed].op)
          /\ ~authenticated' ]_vars

C14_Witness ==
    LET o == task[Observed]
    IN  /\ o.op = "get_events" /\ o.pc = "done" /\ o.startAuth
        /\ o.last = NetErr /\ o.nReq = 1 /\ o.ret = "None"
        /\ ~authenticated

\* C17: async_logout never raises, sends at most one GET to the logout
\* endpoint and no login, and authenticated is false once it has returned,
\* whether the GET was answered or failed.
C17_LogoutBestEffort ==
    LET o == task[Observed]
    IN  o.op = "logout" =>
          /\ o.nReq <= 1 /\ o.nLogin = 0
          /\ o.pc \in {"logout_get", "done"}
          /\ o.pc = "done" => (o.ret = "None" /\ ~authenticated)

C17_Witness ==
    LET o == task[Observed]
    IN  /\ o.op = "logout" /\ o.pc = "done" /\ o.startAuth
        /\ o.nReq = 1 /\ o.last = NetErr
        /\ ~authenticated

\* C15 (as claimed): when a status poll yields no data (get_status returns
\* None), the alarm switch keeps the state it reported before the poll.
C15_FailedPollKeepsState ==
    [][ (host_pc = "poll" /\ host_pc' = "idle"
            /\ task[Observed].ret = "None") =>
          IsOn(switch_data') = IsOn(switch_data) ]_vars

\* C16 (as claimed): once the shutdown listener has run, a logout GET has
\* been sent for the stored client, whatever its authenticated flag was.
C16_ShutdownSendsLogout ==
    (host_pc = "stopped" /\ registered) => logout_gets = 1

\* what the page handed to the status extractor contains
ArmIconsOf(doc) == { i \in ControlIconsOf(doc) : HasClass(doc[i], ClsArm) }

DisarmIconsOf(doc) == { i \in ControlIconsOf(doc) : HasClass(doc[i], ClsDisarm) }

StatusRowsOf(p) ==
    { i \in 1..Len(p) : p[i].tag = "div" /\ p[i].class = "row status" }

HasAlarm == "alarm" \in DOMAIN status_data.entities

\* C18 (as claimed): whenever the page holds a highlighted label and control
\* icons encoding arm or disarm (all of them the same), the extractor's
\* is_armed is the icons' reading, wherever label and icon are in the page.
C18_IconOverridesLabel ==
    LET doc == Flatten(html)
    IN  (parse_pc = "returned" /\ LabelsOf(doc) # {}
            /\ ArmIconsOf(doc) \cup DisarmIconsOf(doc) # {}
            /\ (ArmIconsOf(doc) = {} \/ DisarmIconsOf(doc) = {})) =>
          /\ HasAlarm
          /\ status_data.entities["alarm"].state = (ArmIconsOf(doc) # {})

\* C19 (as claimed): with no control icon in the page, highlighted labels
\* that all hold the deactivated word give is_armed = false, and labels that
\* all hold "activée" or "armée" without the deactivated word give true.
C19_LabelTier ==
    LET doc == Flatten(html)
        Deact(i) == Contains(Lower(doc[i].text), WordDeactivated)
        Act(i) == /\ ~Deact(i)
                  /\ \/ Contains(Lower(doc[i].text), WordActivated)
                     \/ Contains(Lower(doc[i].text), WordArmed)
    IN  (parse_pc = "returned" /\ LabelsOf(doc) # {}
            /\ ControlIconsOf(doc) = {}) =>
          /\ (\A i \in LabelsOf(doc) : Deact(i)) =>
                (HasAlarm /\ ~status_data.entities["alarm"].state)
          /\ (\A i \in LabelsOf(doc) : Act(i)) =>
                (HasAlarm /\ status_data.entities["alarm"].state)

\* C20: for a page with no highlighted label, no control icon and no status
\* row, the extractor returns empty entities and empty sensors (and returns).
C20_NoStructuresEmptyRecord ==
    LET doc == Flatten(html)
    IN  (parse_pc = "returned" /\ LabelsOf(doc) = {}
            /\ ControlIconsOf(doc) = {} /\ StatusRowsOf(html) = {}) =>
          status_data = [entities |-> <<>>, sensors |-> <<>>]

C20_Witness ==
    /\ parse_pc = "returned"
    /\ html = <<Div("row", <<Span("label", TxtDeactivated), Icon(<<ClsPlain>>)>>),
               Icon(<<ClsPlain>>)>>
    /\ status_data.entities = <<>> /\ status_data.sensors = <<>>

\* C24: in each resource operation a 401 or 403 on the first request marks
\* the session unauthenticated and calls authenticate() once (one login POST,
\* or none when the backoff blocks it); when that login fails the operation
\* returns no data / false with no further resource request, and when it
\* succeeds the resource request is sent exactly once more.
C24_ReauthOnceAfter401 ==
    [][ LET o == task[Observed]
            n == task'[Observed]
        IN  /\ (o.pc = "fetch" /\ n.pc # "fetch" /\ n.last.status \in {401, 403}) =>
                  /\ ~authenticated'
                  /\ n.branch = "401"
                  /\ \/ n.pc = "auth_post" /\ n.nLogin = o.nLogin + 1
                     \/ /\ n.pc = "done" /\ n.loginResp = Blocked
                        /\ n.nLogin = o.nLogin /\ n.ret = NoData(n.op)
            /\ (n.branch = "401" /\ n.pc = "done") =>
                  /\ n.nLogin <= (IF n.startAuth THEN 1 ELSE 2)
                  /\ n.re # "True" => (n.nReq = 1 /\ n.ret = NoData(n.op))
                  /\ n.re = "True" => n.nReq = 2 ]_vars

C24_Witness ==
    LET o == task[Observed]
    IN  /\ o.op = "get_temperatures" /\ o.pc = "done" /\ o.branch = "401"
        /\ o.startAuth /\ o.re = "True" /\ o.nLogin = 1 /\ o.nReq = 2
        /\ o.ret = "data"

\* C25 (as claimed): a response, first or retried, whose status is neither
\* 2xx nor 302/401/403/404 ends the operation with no data / false and with
\* authenticated false.
C25_OtherStatusIsFailure ==
    [][ LET o == task[Observed]
            n == task'[Observed]
        IN  (o.pc \in {"fetch", "retry"} /\ n.pc # o.pc
                /\ n.last.kind = "http"
                /\ n.last.status \notin {200, 302, 401, 403, 404}) =>
              /\ n.pc = "done"
              /\ n.ret = NoData(n.op)
              /\ ~authenticated' ]_vars

\* C26: in each read operation a 2xx response, first or retried, with an
\* empty body clears the session (no cookie, authenticated false) and the
\* operation returns no data.
C26_EmptyBodyClearsSession ==
    [][ LET o == task[Observed]
            n == task'[Observed]
        IN  (o.pc \in {"fetch", "retry"} /\ n.pc # o.pc /\ n.op \in ReadOps
                /\ n.last.kind = "http" /\ n.last.status = 200
                /\ n.last.body = "empty") =>
              /\ n.pc = "done" /\ n.ret = "None"
              /\ ~authenticated' /\ ~cookies' ]_vars

C26_Witness ==
    LET o == task[Observed]
    IN  /\ o.op = "get_events" /\ o.pc = "done" /\ o.branch = "302"
        /\ o.re = "True" /\ o.nReq = 2
        /\ o.last = Http("-", 200, "empty") /\ o.ret = "None"
        /\ ~authenticated /\ ~cookies

\* C27 (as claimed): in every read operation a 2xx non-empty body, first or
\* retried, from which the extractor yields no record clears the session and
\* the operation returns no data.
C27_EmptyExtractionClearsSession ==
    [][ LET o == task[Observed]
            n == task'[Observed]
        IN  (o.pc \in {"fetch", "retry"} /\ n.pc # o.pc /\ n.op \in ReadOps
                /\ n.last.kind = "http" /\ n.last.status = 200
                /\ n.last.body # "empty" /\ Extract(n.last.body) = "empty") =>
              /\ n.pc = "done" /\ n.ret = "None"
              /\ ~authenticated' /\ ~cookies' ]_vars

\* C29 (as claimed): when the request retried after a successful
\* re-authentication is answered 302, the operation returns no data / false,
\* whichever of 302 and 401/403 triggered the re-authentication.
C29_Second302IsFailure ==
    [][ LET o == task[Observed]
            n == task'[Observed]
        IN  (o.pc = "retry" /\ n.pc # "retry" /\ n.last.kind = "http"
                /\ n.last.status = 302) =>
              (n.pc = "done" /\ n.ret = NoData(n.op)) ]_vars

\* C30 (as claimed): set_status returns true only if the last command
\* request it sent was answered with a 2xx status.
C30_TrueOnly2xx ==
    LET o == task[Observed]
    IN  (o.op = "set_status" /\ o.pc = "done" /\ o.ret = "True") =>
          (o.nReq >= 1 /\ o.last.kind = "http" /\ o.last.status = 200)

\* the coroutine t as it would be had the caller invoked op instead
AsOp(t, op) ==
    [t EXCEPT !.op = op, !.arg = IF op = "set_status" THEN "arm" ELSE "-"]

\* what the caller learns from a handler's outcome: success, no data, or the
\* await the operation has moved on to
Decision(st) ==
    IF st.t.pc # "done" THEN st.t.pc
    ELSE IF st.t.ret \in {"True", "data"} THEN "success"
    ELSE "no data"

\* responses told apart by their status code alone (a page that parses, or an
\* error whose body is not read)
StatusResponses ==
    { r \in ResourceResponses : r.body = "ok" \/ r.status >= 400 }

\* C28 (as claimed): whenever a resource request is in flight, any of the four
\* operations in the same position would, for the same status code, make the
\* same changes to authenticated and to the cookie store and reach the same
\* success / no-data decision.
C28_SharedProtocol ==
    LET o == task[Observed]
    IN  (o.pc \in {"fetch", "retry"} /\ ValidAction(o.op, o.arg)) =>
          \A op \in ResourceOps : \A r \in StatusResponses :
            LET mine == IF o.pc = "fetch" THEN FirstResponse(Sess, o, r, now)
                        ELSE RetryResponse(Sess, o, r)
                other == IF o.pc = "fetch"
                         THEN FirstResponse(Sess, AsOp(o, op), r, now)
                         ELSE RetryResponse(Sess, AsOp(o, op), r)
            IN  /\ mine.s.authenticated = other.s.authenticated
                /\ mine.s.cookies = other.s.cookies
                /\ Decision(mine) = Decision(other)

\* the keys the room names of the pages are to give
KeySejour == <<"s", "e", "j", "o", "u", "r">>

KeySalleDeBain ==
    <<"s", "a", "l", "l", "e", "_", "d", "e", "_", "b", "a", "i", "n">>

\* the cells whose text is a temperature
GoodTempCells == { c \in TempCells : c.text # <<>> /\ Head(c.text) \in Digits }

\* the rows of a page's table body that show the room name with a temperature
ReadingsOf(p, name) ==
    { i \in 1..Len(p.rows) : /\ Len(p.rows[i]) >= 2
                             /\ p.rows[i][1].text = name
                             /\ p.rows[i][2] \in GoodTempCells }

\* C22: the temperature key depends on the room name alone and folds case,
\* spaces and the accent: on every page polled, whatever the other rows and
\* the position of the row, "Sejour" written with e-acute is stored under
\* "sejour" and "Salle de bain" under "salle_de_bain", and no key holds an
\* upper-case letter, a space or an accented e.
C22_SlugOfRoomName ==
    (parse_pc = "returned" /\ html \in TempPages) =>
      /\ (IsTemperatureTable(html) /\ html.tbody) =>
            /\ ReadingsOf(html, NameSejour) # {} =>
                  /\ KeySejour \in DOMAIN temperatures
                  /\ temperatures[KeySejour].name = NameSejour
            /\ ReadingsOf(html, NameSalleDeBain) # {} =>
                  /\ KeySalleDeBain \in DOMAIN temperatures
                  /\ temperatures[KeySalleDeBain].name = NameSalleDeBain
      /\ DOMAIN temperatures \subseteq {KeySejour, KeySalleDeBain}

C22_Witness ==
    /\ parse_pc = "returned"
    /\ html = Table(<<ClsTableStriped>>, TRUE,
                    <<<<Cell(NameSalleDeBain, <<>>), Cell(<<"-", "-">>, <<>>)>>,
                      <<Cell(NameSejour, <<>>),
                        Cell(<<"2", "1", ".", "5">>, <<"deg", "C">>)>>>>)
    /\ DOMAIN temperatures = {KeySejour}
    /\ temperatures[KeySejour].value = <<"2", "1", ".", "5">>

HasThreeCells(row) == Len(row) >= 3

C23_EntryOnlyWhenAuthenticated ==
    LET o == task[Observed]
    IN  (flow.pc = "done" /\ flow.step \in {"user", "reauth"}) =>
          /\ flow.session # "open"
          /\ flow.result = "entry" =>
                /\ flow.session = "closed"
                /\ o.op = "authenticate" /\ o.ret = "True"
          /\ flow.session = "closed" =>
                /\ o.ret = "True" => flow.result = "entry"
                /\ o.ret = "False" =>
                      (flow.result = "form" /\ flow.error = "invalid_auth")
                /\ o.ret = "raise" =>
                      /\ flow.result = "form"
                      /\ flow.error \in {"cannot_connect", "unknown"}

C23_Witness ==
    /\ flow.pc = "done" /\ flow.step = "user" /\ flow.session = "closed"
    /\ flow.result = "form" /\ flow.error = "cannot_connect"
    /\ task[Observed].ret = "raise"

\* how many awaits an operation can still have before it returns
Rank(t) ==
    CASE t.pc \in {"idle", "done"} -> 0
      [] t.pc \in {"retry", "logout_get"} -> 1
      [] t.pc = "auth_follow" /\ t.branch # "none" -> 2
      [] t.pc = "auth_post" /\ t.branch # "none" -> 3
      [] t.pc = "fetch" -> 4
      [] t.pc = "auth_follow" /\ t.branch = "none" -> 5
      [] t.pc = "auth_post" /\ t.branch = "none" -> 6

\* C31: every resource operation sends at most two resource requests and at
\* most two login POSTs, and every answer it receives (response, timeout or
\* connection error) brings it strictly closer to its return: it terminates
\* after at most six awaits.
C31_BoundedOperation ==
    [][ LET o == task[Observed]
            n == task'[Observed]
        IN  /\ n.op \in ResourceOps => (n.nReq <= 2 /\ n.nLogin <= 2)
            /\ (o.op \in ResourceOps /\ o.pc \notin {"idle", "done"} /\ n # o) =>
                  (n.op = o.op /\ Rank(n) < Rank(o)) ]_vars

C31_Witness ==
    LET o == task[Observed]
    IN  /\ o.op = "set_status" /\ o.pc = "done" /\ ~o.startAuth
        /\ o.branch = "302" /\ o.nLogin = 2 /\ o.nReq = 2
        /\ o.last = Http("-", 302, "ok")

\* C32 (as claimed): whenever a read operation returns None, or set_status
\* returns false for a valid action, authenticated is false when it returns.
C32_NoDataMeansUnauthenticated ==
    LET o == task[Observed]
    IN  (o.op \in ResourceOps /\ o.pc = "done" /\ ValidAction(o.op, o.arg)
            /\ o.ret = NoData(o.op)) =>
          ~authenticated

\* C34: authenticated implies that the time of the last successful login is
\* set; that time changes only when a login succeeds, to the time of that
\* login, and is never cleared or moved backwards.
C34_SuccessTimeOnlyByLogin ==
    [][ /\ authenticated' => last_successful_auth_time' # None
        /\ last_successful_auth_time' # last_successful_auth_time =>
              /\ task[Observed].pc \in LoginPcs
              /\ AuthResult(task'[Observed]) = "True"
              /\ authenticated'
              /\ last_successful_auth_time' = now
              /\ last_successful_auth_time' > last_successful_auth_time ]_vars

C34_Witness ==
    LET o == task[Observed]
    IN  /\ last_successful_auth_time # None
        /\ ~authenticated /\ ~cookies
        /\ last_auth_failure_time # None
        /\ last_auth_failure_time > last_successful_auth_time
        /\ o.op = "logout" /\ o.pc = "done" /\ o.arg = "force"

\* C37 (as claimed): set_status called with an action other than "arm" or
\* "disarm" sends neither a login POST nor a command request and leaves the
\* session state as it was, whatever authenticated was at the call.
C37_BadActionNoRequest ==
    LET o == task[Observed]
    IN  (o.op = "set_status" /\ o.arg = "bogus") =>
          /\ o.nLogin = 0 /\ o.nReq = 0
          /\ o.pc = "done"
          /\ authenticated = o.startAuth
\* the 'row status' blocks of the page that hold both a highlighted label
\* and a control icon
QualifyingRows(p) ==
    { i \in StatusRowsOf(p) :
        /\ LabelsOf(p[i].children) # {}
        /\ ControlIconsOf(p[i].children) # {} }

LastOf(S) == CHOOSE i \in S : \A j \in S : j <= i

\* the text of the first highlighted label of row i, stripped
RowLabel(p, i) ==
    Strip(Find(p[i].children, LabelsOf(p[i].children))[1].text)

\* C33: when the page holds 'row status' blocks with both a highlighted
\* label and a control icon, the alarm entity is the one the last such row
\* gives, whatever the label tier, the icon tier and the earlier rows said:
\* its status text is that row's label and its state is "the label does not
\* say deactivated".
C33_LastStatusRowWins ==
    (parse_pc = "returned" /\ QualifyingRows(html) # {}) =>
        LET t == RowLabel(html, LastOf(QualifyingRows(html)))
        IN  /\ HasAlarm
            /\ status_data.entities["alarm"].status_text = t
            /\ status_data.entities["alarm"].state
                   = ~Contains(Lower(t), WordDeactivated)

\* two qualifying rows that disagree: the first label (also the label tier's)
\* says deactivated, the last says activated, and the entity follows the last
C33_Witness ==
    /\ parse_pc = "returned"
    /\ Len(html) = 2
    /\ Cardinality(QualifyingRows(html)) = 2
    /\ RowLabel(html, 1) = TxtDeactivated
    /\ RowLabel(html, 2) = TxtActivated
    /\ status_data.entities["alarm"].state = TRUE
    /\ status_data.entities["alarm"].status_text = TxtActivated
\* how many times the event with message m was fired on the bus
TimesFired(m) == Cardinality({ k \in 1..Len(bus) : bus[k].message = m })

\* the messages of the events of the server's log
LogMessages == { server_log[i][3].text : i \in 1..Len(server_log) }

\* C35 (as claimed): over any sequence of updates of the events coordinator,
\* each event of the server's log is fired on the bus at most once, the case
\* of a newest event whose date did not parse included.
C35_FiredAtMostOnce ==
    \A m \in LogMessages : TimesFired(m) <= 1

\* the events the update that has just returned put on the bus
FiredNow == { bus'[k].message : k \in (Len(bus) + 1)..Len(bus') }

\* C36 (as claimed): an update that returns events fires, during that update,
\* every returned event that no earlier update had returned, the events dated
\* as the last processed one and those behind an undated event included.
C36_NoNewEventMissed ==
    [][(polls' = polls + 1 /\ coord_data' # <<>>) =>
          \A m \in Messages(coord_data') : m \notin seen => m \in FiredNow]_vars
\* the status poll has returned data
PollReturnsData ==
    /\ task[Observed].op = "get_status"
    /\ task[Observed].pc = "done"
    /\ task[Observed].ret = "data"

\* a call made on a session that is not authenticated, with a failure
\* recorded AUTH_RETRY_DELAY or more ago, sends the login POST
ExpiredBackoffLogsIn ==
    (/\ task[Observed].pc \in {"idle", "done"}
     /\ task'[Observed] # task[Observed]
     /\ ~authenticated
     /\ last_auth_failure_time # None
     /\ now - last_auth_failure_time >= AUTH_RETRY_DELAY)
        => task'[Observed].pc = "auth_post"

\* C38: once the server accepts the credentials and serves a recognizable
\* status page, with the coordinator polling on and time advancing, a poll
\* that has not returned data is followed by one that does; and a failure
\* recorded 5 minutes ago or more does not stop a call from logging in.
C38_PollEventuallyReturnsData ==
    /\ (server_ok /\ ~PollReturnsData) ~> PollReturnsData
    /\ [][ExpiredBackoffLogsIn]_vars

\* the server has recovered, the failure recorded before it did is 5 minutes
\* old, and the login of a poll is under way, its cookie already set
C38_Witness ==
    /\ server_ok
    /\ task[Observed].op = "get_status"
    /\ task[Observed].pc = "auth_follow"
    /\ task[Observed].branch = "none"
    /\ ~authenticated
    /\ last_auth_failure_time # None
    /\ now - last_auth_failure_time >= AUTH_RETRY_DELAY

====
